---- MODULE Spec2Model ----
(***************************************************************************)
(* The rules engine of src/Tetris.py: Piece, Bag, Queue, Board,            *)
(* rotate_with_kick, is_tspin and Game, with the key handling of main().   *)
(* Times are integers in microseconds; None is the value NONE (-1) for the *)
(* lock timer and "none" for the hold slot and the last-action tag.        *)
(***************************************************************************)
EXTENDS Integers, Sequences, FiniteSets, TLC

\* ---------------------------------------------------------------- constants
COLS == 10
ROWS == 22
VISIBLE_ROWS == 20
HIDDEN_ROWS == ROWS - VISIBLE_ROWS
LOCK_DELAY == 500000
LOCK_RESETS_MAX == 15
PREVIEW == 2
CLEAR_ANIM_TIME == 150000
NONE == -1

Kinds == {"I", "J", "L", "O", "S", "T", "Z"}
KINDS_LIST == <<"I", "J", "L", "O", "S", "T", "Z">>
EMPTY == "."

\* SHAPES[kind][rot + 1][i + 1] is the cell i = 4 * row + column of the 4x4 matrix
SHAPES ==
  [I |-> <<
        << ".", ".", ".", ".",
           "X", "X", "X", "X",
           ".", ".", ".", ".",
           ".", ".", ".", "." >>,
        << ".", ".", "X", ".",
           ".", ".", "X", ".",
           ".", ".", "X", ".",
           ".", ".", "X", "." >>,
        << ".", ".", ".", ".",
           ".", ".", ".", ".",
           "X", "X", "X", "X",
           ".", ".", ".", "." >>,
        << ".", "X", ".", ".",
           ".", "X", ".", ".",
           ".", "X", ".", ".",
           ".", "X", ".", "." >>
      >>,
   J |-> <<
        << "X", ".", ".", ".",
           "X", "X", "X", ".",
           ".", ".", ".", ".",
           ".", ".", ".", "." >>,
        << ".", "X", "X", ".",
           ".", "X", ".", ".",
           ".", "X", ".", ".",
           ".", ".", ".", "." >>,
        << ".", ".", ".", ".",
           "X", "X", "X", ".",
           ".", ".", "X", ".",
           ".", ".", ".", "." >>,
        << ".", "X", ".", ".",
           ".", "X", ".", ".",
           "X", "X", ".", ".",
           ".", ".", ".", "." >>
      >>,
   L |-> <<
        << ".", ".", "X", ".",
           "X", "X", "X", ".",
           ".", ".", ".", ".",
           ".", ".", ".", "." >>,
        << ".", "X", ".", ".",
           ".", "X", ".", ".",
           ".", "X", "X", ".",
           ".", ".", ".", "." >>,
        << ".", ".", ".", ".",
           "X", "X", "X", ".",
           "X", ".", ".", ".",
           ".", ".", ".", "." >>,
        << "X", "X", ".", ".",
           ".", "X", ".", ".",
           ".", "X", ".", ".",
           ".", ".", ".", "." >>
      >>,
   O |-> <<
        << ".", "X", "X", ".",
           ".", "X", "X", ".",
           ".", ".", ".", ".",
           ".", ".", ".", "." >>,
        << ".", "X", "X", ".",
           ".", "X", "X", ".",
           ".", ".", ".", ".",
           ".", ".", ".", "." >>,
        << ".", "X", "X", ".",
           ".", "X", "X", ".",
           ".", ".", ".", ".",
           ".", ".", ".", "." >>,
        << ".", "X", "X", ".",
           ".", "X", "X", ".",
           ".", ".", ".", ".",
           ".", ".", ".", "." >>
      >>,
   S |-> <<
        << ".", "X", "X", ".",
           "X", "X", ".", ".",
           ".", ".", ".", ".",
           ".", ".", ".", "." >>,
        << ".", "X", ".", ".",
           ".", "X", "X", ".",
           ".", ".", "X", ".",
           ".", ".", ".", "." >>,
        << ".", ".", ".", ".",
           ".", "X", "X", ".",
           "X", "X", ".", ".",
           ".", ".", ".", "." >>,
        << "X", ".", ".", ".",
           "X", "X", ".", ".",
           ".", "X", ".", ".",
           ".", ".", ".", "." >>
      >>,
   T |-> <<
        << ".", "X", ".", ".",
           "X", "X", "X", ".",
           ".", ".", ".", ".",
           ".", ".", ".", "." >>,
        << ".", "X", ".", ".",
           ".", "X", "X", ".",
           ".", "X", ".", ".",
           ".", ".", ".", "." >>,
        << ".", ".", ".", ".",
           "X", "X", "X", ".",
           ".", "X", ".", ".",
           ".", ".", ".", "." >>,
        << ".", "X", ".", ".",
           "X", "X", ".", ".",
           ".", "X", ".", ".",
           ".", ".", ".", "." >>
      >>,
   Z |-> <<
        << "X", "X", ".", ".",
           ".", "X", "X", ".",
           ".", ".", ".", ".",
           ".", ".", ".", "." >>,
        << ".", ".", "X", ".",
           ".", "X", "X", ".",
           ".", "X", ".", ".",
           ".", ".", ".", "." >>,
        << ".", ".", ".", ".",
           "X", "X", ".", ".",
           ".", "X", "X", ".",
           ".", ".", ".", "." >>,
        << ".", "X", ".", ".",
           "X", "X", ".", ".",
           "X", ".", ".", ".",
           ".", ".", ".", "." >>
      >> ]

JLSTZ_KICKS ==
     <<0, 1>> :> << <<0, 0>>, <<-1, 0>>, <<-1, -1>>, <<0, 2>>, <<-1, 2>> >>
  @@ <<1, 0>> :> << <<0, 0>>, <<1, 0>>, <<1, 1>>, <<0, -2>>, <<1, -2>> >>
  @@ <<1, 2>> :> << <<0, 0>>, <<1, 0>>, <<1, 1>>, <<0, -2>>, <<1, -2>> >>
  @@ <<2, 1>> :> << <<0, 0>>, <<-1, 0>>, <<-1, -1>>, <<0, 2>>, <<-1, 2>> >>
  @@ <<2, 3>> :> << <<0, 0>>, <<1, 0>>, <<1, -1>>, <<0, 2>>, <<1, 2>> >>
  @@ <<3, 2>> :> << <<0, 0>>, <<-1, 0>>, <<-1, 1>>, <<0, -2>>, <<-1, -2>> >>
  @@ <<3, 0>> :> << <<0, 0>>, <<-1, 0>>, <<-1, 1>>, <<0, -2>>, <<-1, -2>> >>
  @@ <<0, 3>> :> << <<0, 0>>, <<1, 0>>, <<1, -1>>, <<0, 2>>, <<1, 2>> >>

I_KICKS ==
     <<0, 1>> :> << <<0, 0>>, <<-2, 0>>, <<1, 0>>, <<-2, -1>>, <<1, 2>> >>
  @@ <<1, 0>> :> << <<0, 0>>, <<2, 0>>, <<-1, 0>>, <<2, 1>>, <<-1, -2>> >>
  @@ <<1, 2>> :> << <<0, 0>>, <<-1, 0>>, <<2, 0>>, <<-1, 2>>, <<2, -1>> >>
  @@ <<2, 1>> :> << <<0, 0>>, <<1, 0>>, <<-2, 0>>, <<1, -2>>, <<-2, 1>> >>
  @@ <<2, 3>> :> << <<0, 0>>, <<2, 0>>, <<-1, 0>>, <<2, 1>>, <<-1, -2>> >>
  @@ <<3, 2>> :> << <<0, 0>>, <<-2, 0>>, <<1, 0>>, <<-2, -1>>, <<1, 2>> >>
  @@ <<3, 0>> :> << <<0, 0>>, <<1, 0>>, <<-2, 0>>, <<1, -2>>, <<-2, 1>> >>
  @@ <<0, 3>> :> << <<0, 0>>, <<-1, 0>>, <<2, 0>>, <<-1, 2>>, <<2, -1>> >>

KICKS_180 == << <<0, 0>>, <<1, 0>>, <<-1, 0>>, <<0, 1>>, <<0, -1>>, <<2, 0>>, <<-2, 0>> >>

SCORE_TABLE ==
  [single |-> 100, double |-> 300, triple |-> 500, tetris |-> 800,
   tspin_mini_single |-> 200, tspin_single |-> 800, tspin_double |-> 1200,
   tspin_triple |-> 1600]

\* ---------------------------------------------------------------- Piece
\* Piece.__init__: a piece of `kind` at its spawn anchor
Piece(kind) ==
  [kind |-> kind, rot |-> 0, x |-> 3,
   y |-> IF kind = "O" THEN 0 - HIDDEN_ROWS ELSE -1,
   last_action |-> "none"]

\* Piece.shape
shape(kind, rot) == SHAPES[kind][rot + 1]

\* the (column, row) pairs Piece.cells finds marked X, for each kind and rotation
MARKED ==
  [kind \in Kinds |-> [r \in 1..4 |->
     {<<i % 4, i \div 4>> : i \in {j \in 0..15 : shape(kind, r - 1)[j + 1] = "X"}}]]

\* Piece.cells: the absolute (x, y) of the cells marked X
cells(p) == {<<p.x + c[1], p.y + c[2]>> : c \in MARKED[p.kind][p.rot + 1]}

\* ---------------------------------------------------------------- Board
\* A grid is the list of its ROWS rows, row y at index y + 1, cell x at index x + 1.
EmptyRow == [x \in 1..COLS |-> EMPTY]

EmptyGrid == [y \in 1..ROWS |-> EmptyRow]

at(grid, x, y) == grid[y + 1][x + 1]

inside(x, y) == 0 <= x /\ x < COLS /\ y < ROWS

\* Board.collide: cells above the grid are skipped before any other test
collide(grid, p) ==
  \E c \in cells(p) :
     /\ ~(c[2] < 0)
     /\ (~inside(c[1], c[2]) \/ at(grid, c[1], c[2]) # EMPTY)

\* Board.lock
lock(grid, p) ==
  LET cs == {c \in cells(p) : 0 <= c[2] /\ c[2] < ROWS /\ 0 <= c[1] /\ c[1] < COLS}
  IN  [y \in 1..ROWS |-> [x \in 1..COLS |->
         IF <<x - 1, y - 1>> \in cs THEN p.kind ELSE grid[y][x]]]

RowFull(row) == \A x \in 1..COLS : row[x] # EMPTY

\* the list `full` of Board.clear_lines: indices of the full rows, ascending
full_rows(grid) ==
  SelectSeq([i \in 1..ROWS |-> i - 1], LAMBDA i : RowFull(grid[i + 1]))

\* del self.grid[i]
del_row(grid, i) == SubSeq(grid, 1, i) \o SubSeq(grid, i + 2, Len(grid))

\* (variant of insert_top: the new row goes to the bottom)
insert_bottom(grid) == grid \o <<EmptyRow>>

\* self.grid.insert(0, [...])
insert_top(grid) == <<EmptyRow>> \o grid

\* the loop `for i in full` of Board.clear_lines
RECURSIVE clear_loop(_, _)
clear_loop(grid, full) ==
  IF full = <<>> THEN grid
  ELSE clear_loop(insert_top(del_row(grid, Head(full))), Tail(full))

\* Board.clear_lines: (count, indices) and the grid it leaves
clear_lines(grid) ==
  LET full == full_rows(grid)
  IN  [count |-> Len(full), full |-> full, grid |-> clear_loop(grid, full)]

\* Board.topped_out
topped_out(grid) ==
  \E y \in 0..(HIDDEN_ROWS - 1) : \E x \in 0..(COLS - 1) : at(grid, x, y) # EMPTY

\* ---------------------------------------------------------------- rotation
\* (variant of rotate_O: the O piece is never turned)
rotate_O_stuck(grid, piece, dir) == [ok |-> FALSE, piece |-> piece]

\* the O branch of rotate_with_kick (dir = +1 or -1)
rotate_O(grid, piece, dir) ==
  LET p1 == [piece EXCEPT !.rot = (piece.rot + dir) % 4]
  IN  IF collide(grid, p1)
      THEN [ok |-> FALSE, piece |-> [p1 EXCEPT !.rot = (p1.rot - dir) % 4]]
      ELSE [ok |-> TRUE, piece |-> [p1 EXCEPT !.last_action = "rotate"]]

\* `piece.rot = old_rot` after the 180 loop: every offset was undone in the loop
rollback_180(p, old_rot) == [p EXCEPT !.rot = old_rot]

\* the loop over the 180 offsets; p already has the target rotation
RECURSIVE kick_180(_, _, _, _)
kick_180(grid, p, old_rot, kicks) ==
  IF kicks = <<>> THEN [ok |-> FALSE, piece |-> rollback_180(p, old_rot)]
  ELSE LET dx == Head(kicks)[1]
           dy == Head(kicks)[2]
           q  == [p EXCEPT !.x = @ + dx, !.y = @ + dy]
       IN  IF ~collide(grid, q)
           THEN [ok |-> TRUE, piece |-> [q EXCEPT !.last_action = "rotate"]]
           ELSE kick_180(grid, [q EXCEPT !.x = @ - dx, !.y = @ - dy], old_rot, Tail(kicks))

\* (variant of rollback_srs: the rotation state is not put back)
rollback_srs_kept(p, oldx, oldy, oldrot) == [p EXCEPT !.x = oldx, !.y = oldy]

\* `piece.x, piece.y, piece.rot = oldx, oldy, oldrot`
rollback_srs(p, oldx, oldy, oldrot) == [p EXCEPT !.x = oldx, !.y = oldy, !.rot = oldrot]

\* the loop over the table offsets; p already has the target rotation
RECURSIVE kick_srs(_, _, _, _, _, _)
kick_srs(grid, p, oldx, oldy, oldrot, kicks) ==
  IF kicks = <<>> THEN [ok |-> FALSE, piece |-> rollback_srs(p, oldx, oldy, oldrot)]
  ELSE LET q == [p EXCEPT !.x = oldx + Head(kicks)[1], !.y = oldy + Head(kicks)[2]]
       IN  IF ~collide(grid, q)
           THEN [ok |-> TRUE, piece |-> [q EXCEPT !.last_action = "rotate"]]
           ELSE kick_srs(grid, q, oldx, oldy, oldrot, Tail(kicks))

\* (variant of kick_list: the offsets of the opposite turn are looked up)
kick_list_back(kicks, frm, to) ==
  IF <<to, frm>> \in DOMAIN kicks THEN kicks[<<to, frm>>] ELSE << <<0, 0>> >>

\* kicks.get((frm, to), [(0,0)])
kick_list(kicks, frm, to) ==
  IF <<frm, to>> \in DOMAIN kicks THEN kicks[<<frm, to>>] ELSE << <<0, 0>> >>

\* rotate_with_kick: [ok, piece]
rotate_with_kick(grid, piece, dir) ==
  IF piece.kind = "O" /\ dir \in {1, -1} THEN rotate_O(grid, piece, dir)
  ELSE IF dir = 2
  THEN kick_180(grid, [piece EXCEPT !.rot = (piece.rot + 2) % 4], piece.rot, KICKS_180)
  ELSE LET frm == piece.rot
           to  == (piece.rot + dir) % 4
           kicks == IF piece.kind = "I" THEN I_KICKS ELSE JLSTZ_KICKS
       IN  kick_srs(grid, [piece EXCEPT !.rot = to], piece.x, piece.y, piece.rot,
                    kick_list(kicks, frm, to))

\* ---------------------------------------------------------------- T-spin
\* (variant of corner_occupied: a cell out of the board counts as free)
corner_occupied_inner(grid, c) ==
  0 <= c[1] /\ c[1] < COLS /\ 0 <= c[2] /\ c[2] < ROWS /\ at(grid, c[1], c[2]) # EMPTY

\* one corner of is_tspin: out of the board, or a locked cell
corner_occupied(grid, c) ==
  IF ~(0 <= c[1] /\ c[1] < COLS /\ 0 <= c[2] /\ c[2] < ROWS) THEN TRUE
  ELSE at(grid, c[1], c[2]) # EMPTY

\* is_tspin: [tspin, mini]
is_tspin(grid, piece, lines, last_action) ==
  IF piece.kind # "T" \/ last_action # "rotate" \/ lines <= 0
  THEN [tspin |-> FALSE, mini |-> FALSE]
  ELSE LET cx == piece.x + 1
           cy == piece.y + 1
           corners == << <<cx - 1, cy - 1>>, <<cx + 1, cy - 1>>,
                         <<cx - 1, cy + 1>>, <<cx + 1, cy + 1>> >>
           occupied == Cardinality({i \in 1..4 : corner_occupied(grid, corners[i])})
           front == CASE piece.rot = 0 -> << <<cx - 1, cy - 1>>, <<cx + 1, cy - 1>> >>
                      [] piece.rot = 1 -> << <<cx + 1, cy - 1>>, <<cx + 1, cy + 1>> >>
                      [] piece.rot = 2 -> << <<cx - 1, cy + 1>>, <<cx + 1, cy + 1>> >>
                      [] piece.rot = 3 -> << <<cx - 1, cy - 1>>, <<cx - 1, cy + 1>> >>
           focc == Cardinality({i \in 1..2 : corner_occupied(grid, front[i])})
       IN  IF occupied < 3 THEN [tspin |-> FALSE, mini |-> FALSE]
           ELSE [tspin |-> TRUE, mini |-> (focc = 1) /\ (lines = 1)]

\* gravity_interval, in microseconds: max(0.05, 0.8 * 0.85 ** (level - 1)),
\* exact for levels 1..5 and rounded down to the microsecond above
RECURSIVE gravity_pow(_)
gravity_pow(level) ==
  IF level <= 1 THEN 800000 ELSE (gravity_pow(level - 1) * 85) \div 100

gravity_interval(level) ==
  IF gravity_pow(level) > 50000 THEN gravity_pow(level) ELSE 50000

\* ---------------------------------------------------------------- Bag, Queue
\* (variant of refill: the first kind of the shuffle is left out)
refill_short(pool, sh) == pool \o Tail(sh)

\* Bag.refill, with `sh` the list random.shuffle leaves
refill(pool, sh) == pool \o sh

\* Bag.pop: [kind, pool]
bag_pop(pool, sh) ==
  LET p == IF pool = <<>> THEN refill(pool, sh) ELSE pool
  IN  [kind |-> Head(p), pool |-> Tail(p)]

\* the list comprehension of Queue.__init__: n pops appended to items
RECURSIVE queue_fill(_, _, _, _)
queue_fill(items, pool, n, sh) ==
  IF n <= 0 THEN [items |-> items, pool |-> pool]
  ELSE LET b == bag_pop(pool, sh)
       IN  queue_fill(items \o <<b.kind>>, b.pool, n - 1, sh)

\* Queue.__init__ (with Bag.__init__): [items, pool]
queue_init(preview, sh) == queue_fill(<<>>, refill(<<>>, sh), preview + 1, sh)

\* Queue.next: [kind, items, pool]
queue_next(items, pool, sh) ==
  LET b == bag_pop(pool, sh)
  IN  [kind |-> Head(items), items |-> Tail(items) \o <<b.kind>>, pool |-> b.pool]

\* ---------------------------------------------------------------- Game
\* The operations below take the Game object as a record g of its fields.

\* the loop of Game.compute_ghost_y on a clone p
RECURSIVE ghost_from(_, _)
ghost_from(grid, p) ==
  LET q == [p EXCEPT !.y = @ + 1]
  IN  IF collide(grid, q) THEN q.y - 1 ELSE ghost_from(grid, q)

\* (variant of compute_ghost_y: the ghost row is left as it was)
compute_ghost_y_stale(g) == g.ghost_y

\* Game.compute_ghost_y
compute_ghost_y(g) == ghost_from(g.board, g.cur)

\* Game.on_ground
on_ground(g) == collide(g.board, [g.cur EXCEPT !.y = @ + 1])

\* (variant of spawn: the new piece is not tested against the board)
spawn_blind(g, sh) ==
  LET q == queue_next(g.items, g.pool, sh)
      g1 == [g EXCEPT !.cur = Piece(q.kind), !.items = q.items, !.pool = q.pool,
                      !.hold_used = FALSE]
  IN  [g1 EXCEPT !.ghost_y = compute_ghost_y(g1), !.lock_timer = NONE,
                 !.lock_reset_count = 0]

\* Game.spawn, with `sh` the shuffle a refill would produce
spawn(g, sh) ==
  LET q  == queue_next(g.items, g.pool, sh)
      g1 == [g EXCEPT !.cur = Piece(q.kind), !.items = q.items, !.pool = q.pool,
                      !.hold_used = FALSE]
      g2 == IF collide(g1.board, g1.cur) THEN [g1 EXCEPT !.game_over = TRUE] ELSE g1
  IN  [g2 EXCEPT !.ghost_y = compute_ghost_y(g2), !.lock_timer = NONE,
                 !.lock_reset_count = 0]

\* (variant of reset_lock_timer: the limit is tested with <=)
reset_lock_timer_late(g) ==
  IF g.lock_reset_count <= LOCK_RESETS_MAX
  THEN [g |-> [g EXCEPT !.lock_timer = 0, !.lock_reset_count = @ + 1], reset |-> TRUE]
  ELSE [g |-> g, reset |-> FALSE]

\* the lock-delay reset of try_move and try_rotate, applied when a timer runs:
\* [g, reset], reset telling that `self.lock_timer = 0.0` was executed
reset_lock_timer(g) ==
  IF g.lock_reset_count < LOCK_RESETS_MAX
  THEN [g |-> [g EXCEPT !.lock_timer = 0, !.lock_reset_count = @ + 1], reset |-> TRUE]
  ELSE [g |-> g, reset |-> FALSE]

\* (variant of try_move: the collision test is made on the piece where it was)
try_move_through(g, dx, dy) ==
  LET moved == [g.cur EXCEPT !.x = @ + dx, !.y = @ + dy]
  IN  IF collide(g.board, g.cur)
      THEN [ok |-> FALSE, reset |-> FALSE, g |-> g]
      ELSE LET g1 == [g EXCEPT !.cur = [moved EXCEPT !.last_action = "move"]]
           IN  IF dy = 0 /\ g1.lock_timer # NONE
               THEN [ok |-> TRUE, reset |-> reset_lock_timer(g1).reset,
                     g |-> reset_lock_timer(g1).g]
               ELSE [ok |-> TRUE, reset |-> FALSE, g |-> g1]

\* Game.try_move: [ok, g, reset]
try_move(g, dx, dy) ==
  LET moved == [g.cur EXCEPT !.x = @ + dx, !.y = @ + dy]
  IN  IF collide(g.board, moved)
      THEN [ok |-> FALSE, reset |-> FALSE,
            g |-> [g EXCEPT !.cur = [moved EXCEPT !.x = g.cur.x, !.y = g.cur.y]]]
      ELSE LET g1 == [g EXCEPT !.cur = [moved EXCEPT !.last_action = "move"]]
           IN  IF dy = 0 /\ g1.lock_timer # NONE
               THEN [ok |-> TRUE, reset |-> reset_lock_timer(g1).reset,
                     g |-> reset_lock_timer(g1).g]
               ELSE [ok |-> TRUE, reset |-> FALSE, g |-> g1]

\* Game.try_rotate: [ok, g, reset]
try_rotate(g, dir) ==
  LET r == rotate_with_kick(g.board, g.cur, dir)
  IN  IF r.ok
      THEN LET g1 == [g EXCEPT !.cur = r.piece]
               t  == IF g1.lock_timer # NONE
                     THEN reset_lock_timer(g1) ELSE [g |-> g1, reset |-> FALSE]
           IN  [ok |-> TRUE, reset |-> t.reset,
                g |-> [t.g EXCEPT !.ghost_y = compute_ghost_y(t.g)]]
      ELSE [ok |-> FALSE, reset |-> FALSE, g |-> [g EXCEPT !.cur = r.piece]]

\* (variant of soft_drop: a rejected soft drop writes the piece into the board)
soft_drop_stamp(g) ==
  LET r == try_move(g, 0, 1)
  IN  IF r.ok THEN [ok |-> TRUE, g |-> [r.g EXCEPT !.drop_distance_soft = @ + 1]]
      ELSE [ok |-> FALSE, g |-> [r.g EXCEPT !.board = lock(@, r.g.cur)]]

\* (variant of soft_drop: an accepted soft drop is not counted)
soft_drop_free(g) ==
  LET r == try_move(g, 0, 1)
  IN  [ok |-> r.ok, g |-> r.g]

\* Game.soft_drop: [ok, g]
soft_drop(g) ==
  LET r == try_move(g, 0, 1)
  IN  IF r.ok THEN [ok |-> TRUE, g |-> [r.g EXCEPT !.drop_distance_soft = @ + 1]]
      ELSE [ok |-> FALSE, g |-> r.g]

\* the classification of Game.lock_piece, from the locals cleared, tspin, mini:
\* line_type ("" for None) and is_b2b_type
classify(cleared, tspin, mini) ==
  IF tspin
  THEN [is_b2b_type |-> TRUE,
        line_type |-> CASE cleared = 1 -> (IF mini THEN "tspin_mini_single" ELSE "tspin_single")
                        [] cleared = 2 -> "tspin_double"
                        [] cleared = 3 -> "tspin_triple"
                        [] OTHER -> ""]
  ELSE [is_b2b_type |-> (cleared = 4),
        line_type |-> CASE cleared = 1 -> "single"
                        [] cleared = 2 -> "double"
                        [] cleared = 3 -> "triple"
                        [] cleared = 4 -> "tetris"
                        [] OTHER -> ""]

\* (variant of b2b_base: no multiplier)
b2b_base_flat(base, is_b2b_type, b2b) == base

\* base = int(base * 1.5) when the lock and the flag are both back-to-back
b2b_base(base, is_b2b_type, b2b) ==
  IF is_b2b_type /\ b2b THEN (base * 3) \div 2 ELSE base

\* (variant of next_combo: an inactive counter starts at 1)
next_combo_from_one(combo) == IF combo >= 0 THEN combo + 1 ELSE 1

\* self.combo = self.combo + 1 if self.combo >= 0 else 0
next_combo(combo) == IF combo >= 0 THEN combo + 1 ELSE 0

\* the zero-line branch of Game.lock_piece
no_clear(g) == [g EXCEPT !.combo = -1]

\* (variant of level_of: a level every 20 lines)
level_of_slow(n) == 1 + n \div 20

\* self.level = 1 + self.lines // 10
level_of(n) == 1 + n \div 10

\* Game.lock_piece: [g, lk], lk holding the locked piece and the locals of the call
lock_piece(g, sh) ==
  LET locked  == lock(g.board, g.cur)
      drop    == g.drop_distance_soft * 1 + g.drop_distance_hard * 2
      cl      == clear_lines(locked)
      ts      == is_tspin(cl.grid, g.cur, cl.count, g.cur.last_action)
      cls     == classify(cl.count, ts.tspin, ts.mini)
      table   == IF cls.line_type # "" THEN SCORE_TABLE[cls.line_type] ELSE 0
      base    == b2b_base(table, cls.is_b2b_type, g.b2b)
      combo   == next_combo(g.combo)
      g1      == [g EXCEPT !.board = cl.grid, !.score = @ + drop,
                           !.drop_distance_soft = 0, !.drop_distance_hard = 0]
      g2      == IF cls.line_type # ""
                 THEN [g1 EXCEPT !.b2b = cls.is_b2b_type, !.combo = combo,
                                 !.score = @ + base + 50 * combo,
                                 !.lines = @ + cl.count,
                                 !.clear_anim = <<cl.full, CLEAR_ANIM_TIME>>]
                 ELSE no_clear(g1)
      g3      == [g2 EXCEPT !.level = level_of(g2.lines)]
  IN  [g  |-> spawn(g3, sh),
       lk |-> [piece |-> g.cur, cleared |-> cl.count, tspin |-> ts.tspin,
               mini |-> ts.mini, line_type |-> cls.line_type,
               is_b2b_type |-> cls.is_b2b_type, table |-> table, base |-> base,
               drop |-> drop]]

\* the loop of Game.hard_drop: [g, dist]
RECURSIVE drop_loop(_, _)
drop_loop(g, dist) ==
  LET r == try_move(g, 0, 1)
  IN  IF r.ok THEN drop_loop(r.g, dist + 1) ELSE [g |-> r.g, dist |-> dist]

\* (variant of hard_drop: the piece is locked where it is)
hard_drop_in_place(g, sh) == lock_piece(g, sh)

\* Game.hard_drop: [g, lk]
hard_drop(g, sh) ==
  LET dropped(d) == lock_piece([d.g EXCEPT !.drop_distance_hard = @ + d.dist], sh)
  IN  dropped(drop_loop(g, 0))

\* (variant of swap_piece: the rotation is kept)
swap_piece_turned(cur, kind) ==
  [cur EXCEPT !.kind = kind, !.x = 3, !.y = IF kind = "O" THEN 0 - HIDDEN_ROWS ELSE -1]

\* the swap branch of Game.hold_swap: the Piece object is kept, its kind, rotation
\* and anchor are rewritten
swap_piece(cur, kind) ==
  [cur EXCEPT !.kind = kind, !.rot = 0, !.x = 3,
              !.y = IF kind = "O" THEN 0 - HIDDEN_ROWS ELSE -1]

\* (variant of hold_swap: hold_used is not looked at)
hold_swap_again(g, sh) ==
  LET g1 == IF g.hold = "none"
            THEN spawn([g EXCEPT !.hold = g.cur.kind], sh)
            ELSE [g EXCEPT !.cur = swap_piece(g.cur, g.hold), !.hold = g.cur.kind]
  IN  [g1 EXCEPT !.hold_used = TRUE, !.ghost_y = compute_ghost_y(g1),
                 !.lock_timer = NONE, !.lock_reset_count = 0]

\* Game.hold_swap
hold_swap(g, sh) ==
  IF g.hold_used THEN g
  ELSE LET g1 == IF g.hold = "none"
                 THEN spawn([g EXCEPT !.hold = g.cur.kind], sh)
                 ELSE LET s == [g EXCEPT !.cur = swap_piece(g.cur, g.hold),
                                         !.hold = g.cur.kind]
                      IN  IF collide(s.board, s.cur)
                          THEN [s EXCEPT !.game_over = TRUE] ELSE s
       IN  [g1 EXCEPT !.hold_used = TRUE, !.ghost_y = compute_ghost_y(g1),
                      !.lock_timer = NONE, !.lock_reset_count = 0]

\* the clear-animation countdown of Game.update
anim_step(anim, dt) ==
  IF anim = <<>> THEN anim
  ELSE IF anim[2] - dt <= 0 THEN <<>> ELSE <<anim[1], anim[2] - dt>>

\* the gravity step of Game.update: [g, moved]
gravity_step(g, dt) ==
  LET gi == gravity_interval(g.level)
      g1 == [g EXCEPT !.gravity_timer = @ + dt]
  IN  IF g1.gravity_timer >= gi
      THEN LET g2 == [g1 EXCEPT !.gravity_timer = @ - gi]
               r  == try_move(g2, 0, 1)
           IN  IF r.ok THEN [g |-> r.g, moved |-> TRUE]
               ELSE [g |-> IF r.g.lock_timer = NONE
                           THEN [r.g EXCEPT !.lock_timer = 0] ELSE r.g,
                     moved |-> FALSE]
      ELSE [g |-> g1, moved |-> FALSE]

\* the lock-delay step of Game.update: [g, locked, lk]
NoLock == [piece |-> Piece("I"), cleared |-> 0, tspin |-> FALSE, mini |-> FALSE,
           line_type |-> "", is_b2b_type |-> FALSE, table |-> 0, base |-> 0, drop |-> 0]

\* (variant of lock_delay_step: the timer of a piece found on the ground starts
\* at dt)
lock_delay_step_hasty(g, dt, sh) ==
  IF on_ground(g)
  THEN LET g1 == [g EXCEPT !.lock_timer = IF @ = NONE THEN dt ELSE @ + dt]
       IN  IF g.lock_timer # NONE /\ g1.lock_timer >= LOCK_DELAY
           THEN LET locked(l) == [g |-> [l.g EXCEPT !.lock_timer = NONE],
                                       locked |-> TRUE, lk |-> l.lk]
                IN  locked(lock_piece(g1, sh))
           ELSE [g |-> g1, locked |-> FALSE, lk |-> NoLock]
  ELSE [g |-> [g EXCEPT !.lock_timer = NONE], locked |-> FALSE, lk |-> NoLock]

lock_delay_step(g, dt, sh) ==
  IF on_ground(g)
  THEN IF g.lock_timer = NONE
       THEN [g |-> [g EXCEPT !.lock_timer = 0], locked |-> FALSE, lk |-> NoLock]
       ELSE LET g1 == [g EXCEPT !.lock_timer = @ + dt]
            IN  IF g1.lock_timer >= LOCK_DELAY
                THEN LET locked(l) == [g |-> [l.g EXCEPT !.lock_timer = NONE],
                                            locked |-> TRUE, lk |-> l.lk]
                     IN  locked(lock_piece(g1, sh))
                ELSE [g |-> g1, locked |-> FALSE, lk |-> NoLock]
  ELSE [g |-> [g EXCEPT !.lock_timer = NONE], locked |-> FALSE, lk |-> NoLock]

\* (variant of update: the early return is taken only when paused and over)
update_unfrozen(g, dt, sh) ==
  IF g.paused /\ g.game_over
  THEN [g |-> g, moved |-> FALSE, locked |-> FALSE, lk |-> NoLock]
  ELSE LET ghost(gs, ls) ==
             [g |-> [ls.g EXCEPT !.ghost_y = compute_ghost_y(ls.g)],
              moved |-> gs.moved, locked |-> ls.locked, lk |-> ls.lk]
           delay(gs) == ghost(gs, lock_delay_step(gs.g, dt, sh))
       IN  delay(gravity_step([g EXCEPT !.clear_anim = anim_step(@, dt)], dt))

\* Game.update: [g, moved, locked, lk]
update(g, dt, sh) ==
  IF g.paused \/ g.game_over
  THEN [g |-> g, moved |-> FALSE, locked |-> FALSE, lk |-> NoLock]
  ELSE LET ghost(gs, ls) ==
             [g |-> [ls.g EXCEPT !.ghost_y = compute_ghost_y(ls.g)],
              moved |-> gs.moved, locked |-> ls.locked, lk |-> ls.lk]
           delay(gs) == ghost(gs, lock_delay_step(gs.g, dt, sh))
       IN  delay(gravity_step([g EXCEPT !.clear_anim = anim_step(@, dt)], dt))

\* Game.__init__, with `sh` the shuffle of the first bag
NewGame(sh) ==
  LET q0 == queue_init(PREVIEW, sh)
      q  == queue_next(q0.items, q0.pool, sh)
      g  == [board |-> EmptyGrid, items |-> q.items, pool |-> q.pool, hold |-> "none",
             hold_used |-> FALSE, cur |-> Piece(q.kind), ghost_y |-> 0,
             score |-> 0, lines |-> 0, level |-> 1, combo |-> -1, b2b |-> FALSE,
             drop_distance_soft |-> 0, drop_distance_hard |-> 0, gravity_timer |-> 0,
             lock_timer |-> NONE, paused |-> FALSE, game_over |-> FALSE,
             lock_reset_count |-> 0, clear_anim |-> <<>>]
  IN  [g EXCEPT !.ghost_y = compute_ghost_y(g)]

\* ---------------------------------------------------------------- state
VARIABLES
  board,               \* Game.board.grid
  cur,                 \* Game.cur
  items,               \* Game.queue.items
  pool,                \* Game.queue.bag.pool
  hold,                \* Game.hold
  hold_used,
  ghost_y,
  score,
  lines,
  level,
  combo,
  b2b,
  drop_distance_soft,
  drop_distance_hard,
  gravity_timer,
  lock_timer,
  paused,
  game_over,
  lock_reset_count,
  clear_anim,
  pc,                  \* main(): "idle" between calls, "returned" right after one
  op,                  \* the call that has just returned: its name and what it returned
  locks,               \* history: one record per run of the lock sequence
  resets,              \* history: `self.lock_timer = 0.0` executions by intents for the active piece
  since_active,        \* history: last successful move/rotate since the piece became active
  handed,              \* history: the kinds Queue.next has returned
  soft_cells,          \* history: rows the pieces went down by soft drops since the last lock
  left                 \* locks the run is still followed for

gameVars == <<board, cur, items, pool, hold, hold_used, ghost_y, score, lines, level,
              combo, b2b, drop_distance_soft, drop_distance_hard, gravity_timer,
              lock_timer, paused, game_over, lock_reset_count, clear_anim>>

histVars == <<locks, resets, since_active, handed, soft_cells, left>>

vars == <<gameVars, pc, op, histVars>>

\* the Game object as a record
G ==
  [board |-> board, items |-> items, pool |-> pool, hold |-> hold,
   hold_used |-> hold_used, cur |-> cur, ghost_y |-> ghost_y, score |-> score,
   lines |-> lines, level |-> level, combo |-> combo, b2b |-> b2b,
   drop_distance_soft |-> drop_distance_soft, drop_distance_hard |-> drop_distance_hard,
   gravity_timer |-> gravity_timer, lock_timer |-> lock_timer, paused |-> paused,
   game_over |-> game_over, lock_reset_count |-> lock_reset_count,
   clear_anim |-> clear_anim]

Commit(g) ==
  /\ board' = g.board
  /\ cur' = g.cur
  /\ items' = g.items
  /\ pool' = g.pool
  /\ hold' = g.hold
  /\ hold_used' = g.hold_used
  /\ ghost_y' = g.ghost_y
  /\ score' = g.score
  /\ lines' = g.lines
  /\ level' = g.level
  /\ combo' = g.combo
  /\ b2b' = g.b2b
  /\ drop_distance_soft' = g.drop_distance_soft
  /\ drop_distance_hard' = g.drop_distance_hard
  /\ gravity_timer' = g.gravity_timer
  /\ lock_timer' = g.lock_timer
  /\ paused' = g.paused
  /\ game_over' = g.game_over
  /\ lock_reset_count' = g.lock_reset_count
  /\ clear_anim' = g.clear_anim

\* ---------------------------------------------------------------- bounds
\* locks followed in a run
MaxLocks == 1
\* cells of soft drop followed per piece
MaxSoft == 1
\* columns beyond the outermost anchors, and rows above the spawn rows, a piece is followed to
MaxOver == 0

\* the elapsed time of a timed update (microseconds): two updates per gravity step
DT_FINE == 400000
\* ... and one update per gravity step
DT_COARSE == 800000

\* ---------------------------------------------------------------- shuffles
swap(x, i, j) == [x EXCEPT ![i] = x[j], ![j] = x[i]]

\* random.shuffle(x) (Fisher-Yates): for i = len(x)-1 down to 1, j = randbelow(i + 1),
\* x[i], x[j] = x[j], x[i]; js[i] is the draw made for index i
RECURSIVE shuffle(_, _, _)
shuffle(x, i, js) ==
  IF i < 1 THEN x ELSE shuffle(swap(x, i + 1, js[i] + 1), i - 1, js)

Shuffled(js) == shuffle(KINDS_LIST, 6, js)

\* the shuffles a session draws from: every draw 0, or every draw the index itself
GameShuffles == {Shuffled([i \in 1..6 |-> 0]), Shuffled([i \in 1..6 |-> i])}

\* ---------------------------------------------------------------- steps
\* A state s is the Game object s.g with the history kept beside it.
NoCall == [name |-> "-", ok |-> TRUE]

LockRec(lk, by, since, soft, g0, g1) ==
  [piece |-> lk.piece, cleared |-> lk.cleared, tspin |-> lk.tspin, mini |-> lk.mini,
   line_type |-> lk.line_type, is_b2b_type |-> lk.is_b2b_type, table |-> lk.table,
   base |-> lk.base, drop |-> lk.drop, by |-> by, since |-> since,
   gain |-> g1.score - g0.score, combo |-> g1.combo, b2b |-> g1.b2b,
   b2b_before |-> g0.b2b, combo_before |-> g0.combo, last_action |-> lk.piece.last_action,
   soft |-> soft, fell |-> IF by = "hard_drop" THEN lk.piece.y - g0.cur.y ELSE 0]

\* K_LEFT, K_RIGHT: game.try_move(dx, 0)
StepMove(s, dx) ==
  LET r == try_move(s.g, dx, 0)
  IN  [s EXCEPT !.g = r.g,
                !.op = [name |-> "move", ok |-> r.ok],
                !.resets = IF r.reset THEN @ + 1 ELSE @,
                !.since_active = IF r.ok THEN "move" ELSE @]

\* K_DOWN: game.soft_drop()
StepDown(s) ==
  LET r == soft_drop(s.g)
  IN  [s EXCEPT !.g = r.g,
                !.op = [name |-> "soft_drop", ok |-> r.ok],
                !.soft_cells = @ + (r.g.cur.y - s.g.cur.y),
                !.since_active = IF r.ok THEN "move" ELSE @]

\* K_UP / K_x (+1), K_z (-1), K_a (2): game.try_rotate(dir)
StepRotate(s, dir) ==
  LET r == try_rotate(s.g, dir)
  IN  [s EXCEPT !.g = r.g,
                !.op = [name |-> "rotate", ok |-> r.ok],
                !.resets = IF r.reset THEN @ + 1 ELSE @,
                !.since_active = IF r.ok THEN "rotate" ELSE @]

\* K_SPACE: game.hard_drop()
StepSpace(s, sh) ==
  LET done(r, since) ==
        [s EXCEPT !.g = r.g,
                  !.op = [name |-> "hard_drop", ok |-> TRUE,
                          from |-> [y |-> s.g.cur.y, gravity_timer |-> s.g.gravity_timer,
                                    lock_timer |-> s.g.lock_timer,
                                    lock_reset_count |-> s.g.lock_reset_count,
                                    active |-> ~s.g.game_over /\ ~s.g.paused]],
                  !.locks = Append(@, LockRec(r.lk, "hard_drop", since, s.soft_cells, s.g, r.g)),
                  !.soft_cells = 0,
                  !.left = @ - 1,
                  !.resets = 0,
                  !.since_active = "none"]
      moved(r) == done(r, IF r.lk.piece.y # s.g.cur.y THEN "move" ELSE s.since_active)
  IN  moved(hard_drop(s.g, sh))

\* K_c: game.hold_swap()
StepHold(s, sh) ==
  [s EXCEPT !.g = hold_swap(s.g, sh),
            !.op = [name |-> "hold", ok |-> ~s.g.hold_used,
                    from |-> [hold |-> s.g.hold, rot |-> s.g.cur.rot,
                              lock_timer |-> s.g.lock_timer]],
            !.resets = IF s.g.hold_used THEN @ ELSE 0,
            !.since_active = IF s.g.hold_used THEN @ ELSE "none"]

\* K_p: game.paused = not game.paused
StepPause(s) ==
  [s EXCEPT !.g = [s.g EXCEPT !.paused = ~@], !.op = [name |-> "pause", ok |-> TRUE]]

\* game.update(dt)
StepUpdate(s, dt, sh) ==
  LET done(r, since) ==
        [s EXCEPT !.g = r.g,
                  !.op = [name |-> "update", ok |-> TRUE, locked |-> r.locked],
                  !.locks = IF r.locked
                            THEN Append(@, LockRec(r.lk, "update", since, s.soft_cells,
                                                   s.g, r.g))
                            ELSE @,
                  !.soft_cells = IF r.locked THEN 0 ELSE @,
                  !.left = IF r.locked THEN @ - 1 ELSE @,
                  !.resets = IF r.locked THEN 0 ELSE @,
                  !.since_active = IF r.locked THEN "none" ELSE since]
      moved(r) == done(r, IF r.moved THEN "move" ELSE s.since_active)
  IN  moved(update(s.g, dt, sh))

\* K_r: game = Game(); the new session is not followed
StepRestart(s, sh) ==
  [s EXCEPT !.g = NewGame(sh), !.op = [name |-> "restart", ok |-> TRUE],
            !.locks = <<>>, !.resets = 0, !.since_active = "none", !.soft_cells = 0,
            !.left = 0]

\* main() goes on to the next event or frame
StepResume(s) == [s EXCEPT !.op = NoCall]

\* ---------------------------------------------------------------- boards
Holes(tag, holes) == [x \in 1..COLS |-> IF (x - 1) \in holes THEN EMPTY ELSE tag]

Rep(row, n) == [i \in 1..n |-> row]

\* n rows with one buried hole each, in column 0 and column 9 in turn
Garbage(n) == [i \in 1..n |-> Holes("Z", {IF i % 2 = 0 THEN 0 ELSE 9})]

\* the grid whose lowest rows are `rows`, empty above
Stack(rows) ==
  [y \in 1..ROWS |-> IF y <= ROWS - Len(rows) THEN EmptyRow ELSE rows[y - (ROWS - Len(rows))]]

\* a session some pieces in, right after a spawn: no line cleared yet, nothing
\* dropped by hand; `used` tells whether hold was used for this piece
Session(grid, kind, held, used, its, pl) ==
  LET g == [NewGame(KINDS_LIST) EXCEPT !.board = grid, !.cur = Piece(kind),
                                       !.hold = held, !.hold_used = used,
                                       !.items = its, !.pool = pl]
  IN  [g |-> [g EXCEPT !.ghost_y = compute_ghost_y(g)], op |-> NoCall, locks |-> <<>>,
       resets |-> 0, since_active |-> "none", handed |-> <<>>, soft_cells |-> 0,
       left |-> MaxLocks]

\* side stacks up to row 0 around a shaft over columns 3..6 that is two rows deep
BoardBrink ==
  Stack(Rep(Holes("J", {3, 4, 5, 6}), 2) \o Garbage(20))

SnapBrink == Session(BoardBrink, "T", "S", TRUE, <<"I", "O", "S">>, <<"Z", "J", "L">>)

\* side stacks up to row 0 around a one-row shaft, and under it a pit one column
\* wide and three rows deep
BoardPit ==
  Stack(<<Holes("J", {0, 3, 4, 5, 6})>> \o Rep(Holes("S", {5, 9}), 3) \o Garbage(18))

SnapPit == Session(BoardPit, "I", "S", TRUE, <<"T", "O", "S">>, <<"Z", "J", "L">>)

\* a T slot under an overhang at the bottom of the shaft: a T turned into it
\* completes rows 3 and 4
BoardTSD ==
  Stack(Rep(Holes("O", {3, 4, 5, 6}), 2) \o <<Holes("L", {3, 4}), Holes("J", {3, 4, 5}),
        Holes("S", {4})>> \o Garbage(17))

SnapTSD == Session(BoardTSD, "T", "L", TRUE, <<"O", "S", "Z">>, <<"I", "J">>)

\* a well one column wide and eight rows deep under the shaft
BoardWell ==
  Stack(Rep(Holes("O", {3, 4, 5, 6}), 2) \o Rep(Holes("L", {5}), 8) \o Garbage(12))

SnapWell == Session(BoardWell, "I", "I", TRUE, <<"I", "T", "O">>, <<"S", "Z", "J", "L">>)

\* a gap right under the spawn position: three cells of row 0, two of row 1
BoardCarry ==
  Stack(<<Holes("S", {3, 4, 5}), Holes("Z", {4, 5})>> \o Garbage(20))

SnapCarry == Session(BoardCarry, "O", "T", FALSE, <<"S", "Z", "L">>, <<"J", "I">>)

\* the session goes on from s
Fresh(s) == [s EXCEPT !.op = NoCall, !.left = MaxLocks]

\* SnapWell after the I piece was turned upright and dropped down the well
SnapWell1 == Fresh(StepHold(StepSpace(StepRotate(SnapWell, 1), KINDS_LIST), KINDS_LIST))

\* ... and after the I piece that followed was dropped on the left stack and the
\* T piece after it was swapped for the held I piece
SnapWell2 ==
  Fresh(StepHold(StepSpace(StepMove(StepMove(StepMove(SnapWell1, -1), -1), -1), KINDS_LIST),
                 KINDS_LIST))

\* every row filled but for one cell at a side wall
BoardTop == Stack(Garbage(ROWS))

\* the O piece over a stack that reaches the top, the T piece held
SnapTop == Session(BoardTop, "O", "T", FALSE, <<"O", "S", "Z">>, <<"I", "J", "L">>)

\* ... after the T piece came back by hold, onto the stack, and was dropped
SnapOver == Fresh(StepSpace(StepHold(SnapTop, KINDS_LIST), KINDS_LIST))

\* SnapCarry nine single lines into the session
SnapLate == [SnapCarry EXCEPT !.g.lines = 9, !.g.score = 900]

\* a session in which hold was never used
SnapBare == Session(BoardCarry, "T", "none", FALSE, <<"S", "Z", "L">>, <<"J", "I">>)

\* ---------------------------------------------------------------- actions
\* the state as a record
S ==
  [g |-> G, op |-> op, locks |-> locks, resets |-> resets, since_active |-> since_active,
   handed |-> handed, soft_cells |-> soft_cells, left |-> left]

Is(s) ==
  /\ board = s.g.board
  /\ cur = s.g.cur
  /\ items = s.g.items
  /\ pool = s.g.pool
  /\ hold = s.g.hold
  /\ hold_used = s.g.hold_used
  /\ ghost_y = s.g.ghost_y
  /\ score = s.g.score
  /\ lines = s.g.lines
  /\ level = s.g.level
  /\ combo = s.g.combo
  /\ b2b = s.g.b2b
  /\ drop_distance_soft = s.g.drop_distance_soft
  /\ drop_distance_hard = s.g.drop_distance_hard
  /\ gravity_timer = s.g.gravity_timer
  /\ lock_timer = s.g.lock_timer
  /\ paused = s.g.paused
  /\ game_over = s.g.game_over
  /\ lock_reset_count = s.g.lock_reset_count
  /\ clear_anim = s.g.clear_anim
  /\ op = s.op
  /\ locks = s.locks
  /\ resets = s.resets
  /\ since_active = s.since_active
  /\ handed = s.handed
  /\ soft_cells = s.soft_cells
  /\ left = s.left

Becomes(s) ==
  /\ Commit(s.g)
  /\ op' = s.op
  /\ locks' = s.locks
  /\ resets' = s.resets
  /\ since_active' = s.since_active
  /\ handed' = s.handed
  /\ soft_cells' = s.soft_cells
  /\ left' = s.left

\* main(): a key is handled when the game is over or not paused
KeyOps == game_over \/ ~paused

\* the part of a run that is followed
Following == pc = "idle" /\ left > 0

InReach(p) ==
  /\ (0 - 2 - MaxOver) <= p.x
  /\ p.x <= COLS - 2 + MaxOver
  /\ (0 - HIDDEN_ROWS - MaxOver) <= p.y

Call(s) == Becomes(s) /\ pc' = "returned"

KeyMove(dx) ==
  /\ KeyOps /\ Following
  /\ InReach(StepMove(S, dx).g.cur)
  /\ Call(StepMove(S, dx))

KeyDown ==
  /\ KeyOps /\ Following
  /\ drop_distance_soft < MaxSoft
  /\ Call(StepDown(S))

KeyRotate(dir) ==
  /\ KeyOps /\ Following
  /\ InReach(StepRotate(S, dir).g.cur)
  /\ Call(StepRotate(S, dir))

KeySpace ==
  /\ KeyOps /\ Following
  /\ \E sh \in GameShuffles : Call(StepSpace(S, sh))

KeyHold ==
  /\ KeyOps /\ Following
  /\ \E sh \in GameShuffles : Call(StepHold(S, sh))

KeyPause ==
  /\ ~game_over /\ Following
  /\ Call(StepPause(S))

Tick(dt) ==
  /\ Following
  /\ \E sh \in GameShuffles : Call(StepUpdate(S, dt, sh))

Resume ==
  /\ pc = "returned"
  /\ Becomes(StepResume(S))
  /\ pc' = "idle"

Keys ==
  \/ \E dx \in {-1, 1} : KeyMove(dx)
  \/ KeyDown
  \/ \E dir \in {1, -1, 2} : KeyRotate(dir)
  \/ KeySpace
  \/ KeyHold

KeyRestart ==
  /\ KeyOps /\ Following
  /\ \E sh \in GameShuffles : Call(StepRestart(S, sh))

Scenarios == {SnapBrink}

Init == pc = "idle" /\ \E s \in Scenarios : Is(s)

Next == Keys \/ KeyPause \/ Tick(DT_FINE) \/ Resume

Spec == Init /\ [][Next]_vars

InitPit == pc = "idle" /\ Is(SnapPit)

SpecPit == InitPit /\ [][Next]_vars

ScoreScenarios == {SnapTSD, SnapWell, SnapWell1, SnapWell2, SnapCarry}

InitScore == pc = "idle" /\ \E s \in ScoreScenarios : Is(s)

NextScore == Keys \/ Tick(DT_COARSE) \/ Resume

SpecScore == InitScore /\ [][NextScore]_vars

SessionScenarios == {SnapTop, SnapOver, SnapLate, SnapBare}

InitSession == pc = "idle" /\ \E s \in SessionScenarios : Is(s)

NextSession ==
  \/ Keys
  \/ KeyPause
  \/ KeyRestart
  \/ \E dt \in {DT_FINE, DT_COARSE} : Tick(dt)
  \/ Resume

SpecSession == InitSession /\ [][NextSession]_vars

\* move and rotate intents between updates; every call returns to the frame loop
\* of main()
InitStall == pc = "idle" /\ Is(SnapBrink)

NextStall ==
  \/ \E dx \in {-1, 1} : KeyMove(dx)
  \/ \E dir \in {1, -1, 2} : KeyRotate(dir)
  \/ Tick(DT_FINE)
  \/ Resume

SpecStall == InitStall /\ [][NextStall]_vars /\ WF_vars(Resume)

\* ---------------------------------------------------------------- Board.collide alone
\* cells a placement's anchor may lie beyond each edge of the grid
Margin == 4

Placements ==
  {[kind |-> k, rot |-> r, x |-> x, y |-> y, last_action |-> "none"] :
     k \in Kinds, r \in 0..3, x \in (0 - Margin)..(COLS - 1 + Margin),
     y \in (0 - Margin)..(ROWS - 1 + Margin)}

CollideBoards == {EmptyGrid, BoardBrink}

InitCollide ==
  /\ pc = "idle"
  /\ \E b \in CollideBoards, p \in Placements :
        Is([Session(b, "T", "none", FALSE, <<"I", "O", "S">>, <<"Z", "J", "L">>)
              EXCEPT !.g.cur = p, !.g.ghost_y = 0])

\* board.collide(piece) for the placement at hand
CallCollide ==
  /\ pc = "idle"
  /\ op' = [name |-> "collide", ok |-> collide(board, cur)]
  /\ pc' = "returned"
  /\ UNCHANGED <<gameVars, histVars>>

NextCollide == CallCollide

SpecCollide == InitCollide /\ [][NextCollide]_vars

\* ---------------------------------------------------------------- Board.clear_lines alone
\* rows of the stack a board is built from
MaxRows == 5

RowPatterns == {Holes("I", {}), Holes("J", {0}), Holes("L", {5}), EmptyRow}

RECURSIVE Stacks(_)
Stacks(n) ==
  IF n = 0 THEN {<<>>}
  ELSE LET less == Stacks(n - 1)
       IN  less \cup {<<r>> \o s : r \in RowPatterns, s \in {t \in less : Len(t) = n - 1}}

ClearBoards == {Stack(rows) : rows \in Stacks(MaxRows)}

InitClear ==
  /\ pc = "idle"
  /\ \E b \in ClearBoards :
        Is(Session(b, "T", "none", FALSE, <<"I", "O", "S">>, <<"Z", "J", "L">>))

\* board.clear_lines()
CallClearLines ==
  /\ pc = "idle"
  /\ LET r == clear_lines(board)
     IN  /\ board' = r.grid
         /\ op' = [name |-> "clear_lines", ok |-> TRUE, count |-> r.count, full |-> r.full,
                   before |-> board]
  /\ pc' = "returned"
  /\ UNCHANGED <<cur, items, pool, hold, hold_used, ghost_y, score, lines, level, combo, b2b,
                 drop_distance_soft, drop_distance_hard, gravity_timer, lock_timer, paused,
                 game_over, lock_reset_count, clear_anim, histVars>>

NextClear == CallClearLines

SpecClear == InitClear /\ [][NextClear]_vars

\* ---------------------------------------------------------------- Bag and Queue alone
\* calls of Queue.next that are followed
MaxDraws == 11

\* the shuffles a bag draws from: the draws for the indices in s are the index
\* itself, the other draws are 0
BagShuffles ==
  {Shuffled([i \in 1..6 |-> IF i \in s THEN i ELSE 0]) : s \in SUBSET (1..5)}

InitBag ==
  /\ pc = "idle"
  /\ \E sh \in BagShuffles :
        LET q == queue_init(PREVIEW, sh)
        IN  Is([Session(EmptyGrid, "T", "none", FALSE, q.items, q.pool)
                  EXCEPT !.g.cur = Piece("T")])

\* queue.next(), with sh the shuffle of the refill it may run
CallNext ==
  /\ pc = "idle"
  /\ Len(handed) < MaxDraws
  /\ \E sh \in BagShuffles :
        LET q == queue_next(items, pool, sh)
        IN  /\ items' = q.items
            /\ pool' = q.pool
            /\ handed' = Append(handed, q.kind)
            /\ op' = [name |-> "next", ok |-> TRUE]
  /\ pc' = "idle"
  /\ UNCHANGED <<board, cur, hold, hold_used, ghost_y, score, lines, level, combo, b2b,
                 drop_distance_soft, drop_distance_hard, gravity_timer, lock_timer, paused,
                 game_over, lock_reset_count, clear_anim, locks, resets, since_active,
                 soft_cells, left>>

NextBag == CallNext

SpecBag == InitBag /\ [][NextBag]_vars


\* ---------------------------------------------------------------- Queue construction
\* the largest preview a Queue is constructed with, and minus the smallest
MaxPreview == 3

Previews == (0 - MaxPreview)..MaxPreview

\* no Queue yet
InitQueue ==
  /\ pc = "idle"
  /\ Is([Session(EmptyGrid, "T", "none", FALSE, <<>>, <<>>) EXCEPT !.g.cur = Piece("T")])

\* Queue(preview): no statement of Queue.__init__ or Bag.__init__ raises
CallQueue ==
  /\ pc = "idle"
  /\ op.name = "-"
  /\ \E preview \in Previews, sh \in BagShuffles :
        LET q == queue_init(preview, sh)
        IN  /\ items' = q.items
            /\ pool' = q.pool
            /\ op' = [name |-> "Queue", ok |-> TRUE, preview |-> preview]
  /\ pc' = "idle"
  /\ UNCHANGED <<board, cur, hold, hold_used, ghost_y, score, lines, level, combo, b2b,
                 drop_distance_soft, drop_distance_hard, gravity_timer, lock_timer, paused,
                 game_over, lock_reset_count, clear_anim, histVars>>

\* queue.next() on the Queue constructed: items.pop(0) raises IndexError on an empty list
CallQueueNext ==
  /\ pc = "idle"
  /\ op.name # "-"
  /\ op.ok
  /\ Len(handed) < MaxDraws
  /\ IF items = <<>>
     THEN /\ op' = [op EXCEPT !.name = "next", !.ok = FALSE]
          /\ UNCHANGED <<items, pool, handed>>
     ELSE \E sh \in BagShuffles :
             LET q == queue_next(items, pool, sh)
             IN  /\ items' = q.items
                 /\ pool' = q.pool
                 /\ handed' = Append(handed, q.kind)
                 /\ op' = [op EXCEPT !.name = "next"]
  /\ pc' = "idle"
  /\ UNCHANGED <<board, cur, hold, hold_used, ghost_y, score, lines, level, combo, b2b,
                 drop_distance_soft, drop_distance_hard, gravity_timer, lock_timer, paused,
                 game_over, lock_reset_count, clear_anim, locks, resets, since_active,
                 soft_cells, left>>

NextQueue == CallQueue \/ CallQueueNext

SpecQueue == InitQueue /\ [][NextQueue]_vars

\* ---------------------------------------------------------------- rotate_with_kick alone
RotateBoards == {BoardBrink, BoardPit, BoardTSD}

InitRotate ==
  /\ pc = "idle"
  /\ \E b \in RotateBoards, p \in Placements :
        Is([Session(b, "T", "none", FALSE, <<"I", "O", "S">>, <<"Z", "J", "L">>)
              EXCEPT !.g.cur = p, !.g.ghost_y = 0])

\* rotate_with_kick(board, piece, dir) for the placement at hand
CallRotate(dir) ==
  /\ pc = "idle"
  /\ LET r == rotate_with_kick(board, cur, dir)
     IN  /\ cur' = r.piece
         /\ op' = [name |-> "rotate_with_kick", ok |-> r.ok, dir |-> dir, from |-> cur]
  /\ pc' = "returned"
  /\ UNCHANGED <<board, items, pool, hold, hold_used, ghost_y, score, lines, level, combo,
                 b2b, drop_distance_soft, drop_distance_hard, gravity_timer, lock_timer,
                 paused, game_over, lock_reset_count, clear_anim, histVars>>

NextRotate == \E dir \in {1, -1, 2} : CallRotate(dir)

SpecRotate == InitRotate /\ [][NextRotate]_vars

\* ================================================================ properties
\* the last lock of the history
LastLock == locks[Len(locks)]

\* what a grid holds once its full rows are gone: as many empty rows as were
\* full, then the rows that were not full, in their order
Compacted(grid) ==
  LET kept == SelectSeq(grid, LAMBDA row : \E x \in 1..COLS : row[x] = EMPTY)
  IN  [i \in 1..(Len(grid) - Len(kept)) |-> EmptyRow] \o kept

FullCount(grid) == Cardinality({y \in 1..Len(grid) : \A x \in 1..COLS : grid[y][x] # EMPTY})

\* ---------------------------------------------------------------- C1
\* C1: for every board and placement, Board.collide returns true whenever at
\* least one occupied cell of the piece has x < 0, x >= COLS or y >= ROWS.
C1_Collide ==
  (op.name = "collide" /\ \E c \in cells(cur) : c[1] < 0 \/ c[1] >= COLS \/ c[2] >= ROWS)
     => op.ok

\* ---------------------------------------------------------------- C2
\* the counter and the number of resets made by intents stay within the limit
C2_Counted == lock_reset_count <= LOCK_RESETS_MAX /\ resets <= LOCK_RESETS_MAX

\* a successful move or rotation made once the limit is reached keeps the timer
C2_Kept ==
  (/\ pc = "idle"
   /\ op'.name \in {"move", "rotate"}
   /\ op'.ok
   /\ lock_reset_count = LOCK_RESETS_MAX)
     => (lock_timer' = lock_timer /\ lock_reset_count' = lock_reset_count)

\* C2: between a piece becoming active and its lock the lock-reset counter never
\* exceeds 15, intents set a running lock timer back to zero at most 15 times, and
\* a successful move or rotation made once 15 resets are counted leaves the lock
\* timer's value unchanged.
C2_LockResets == []C2_Counted /\ [][C2_Kept]_vars

C2_Witness ==
  /\ pc = "returned"
  /\ op.name \in {"move", "rotate"}
  /\ op.ok
  /\ lock_reset_count = LOCK_RESETS_MAX
  /\ resets = LOCK_RESETS_MAX
  /\ lock_timer > 0

\* ---------------------------------------------------------------- C3
C3_Failed ==
  (pc = "idle" /\ op'.name = "rotate" /\ ~op'.ok)
     => /\ cur' = cur
        /\ lock_timer' = lock_timer
        /\ lock_reset_count' = lock_reset_count
        /\ ghost_y' = ghost_y

\* C3: a rotation attempt that reports failure leaves the piece's x, y and
\* rotation state as they were, and its last-action tag, the lock timer, the
\* reset counter and the ghost row too.
C3_Rollback == [][C3_Failed]_vars

C3_Witness ==
  /\ pc = "returned"
  /\ op.name = "rotate"
  /\ ~op.ok
  /\ cur.last_action = "move"
  /\ lock_timer > 0
  /\ lock_reset_count > 0
  /\ ~game_over

\* ---------------------------------------------------------------- C4
\* C4: Board.clear_lines returns the number of full rows, and leaves ROWS rows:
\* that many empty rows on top, then the rows that were not full in their
\* original order; no full row remains.
C4_ClearLines ==
  op.name = "clear_lines"
     => /\ op.count = FullCount(op.before)
        /\ Len(board) = ROWS
        /\ board = Compacted(op.before)
        /\ FullCount(board) = 0

\* two full rows that are not adjacent, under and between rows that stay
C4_Witness ==
  /\ op.name = "clear_lines"
  /\ op.count = 2
  /\ op.full = <<ROWS - 4, ROWS - 2>>
  /\ FullCount(<<op.before[ROWS - 4], op.before[ROWS - 2], op.before[ROWS]>>) = 0
  /\ op.before[ROWS - 4] # EmptyRow

\* ---------------------------------------------------------------- C5
\* the lowest anchor row the piece reaches by moving straight down
Lowest(grid, p) ==
  CHOOSE y \in p.y..ROWS :
     /\ \A k \in p.y..y : ~collide(grid, [p EXCEPT !.y = k])
     /\ collide(grid, [p EXCEPT !.y = y + 1])

C5_Dropped ==
  (pc = "idle" /\ op'.name = "hard_drop" /\ ~game_over /\ ~paused)
     => LET placed == [cur EXCEPT !.y = Lowest(board, cur)]
        IN  /\ Len(locks') = Len(locks) + 1
            /\ locks'[Len(locks')].by = "hard_drop"
            /\ board' = Compacted(lock(board, placed))
            /\ cur' = Piece(items[1])
            /\ items' # items
            /\ ~hold_used'
            /\ lock_timer' = NONE
            /\ lock_reset_count' = 0

\* C5: a hard-drop intent in the Active state runs the lock sequence within the
\* intent, whatever the gravity accumulator, lock timer and reset counter are: the
\* piece is written at the lowest row reachable straight down and the next piece
\* is spawned before the intent returns.
C5_HardDrop == [][C5_Dropped]_vars

\* a piece whose lock timer runs, after resets, is dropped some rows and locked
C5_Witness ==
  /\ pc = "returned"
  /\ op.name = "hard_drop"
  /\ op.from.active
  /\ LastLock.by = "hard_drop"
  /\ LastLock.piece.y > op.from.y
  /\ op.from.gravity_timer > 0
  /\ op.from.lock_timer > 0
  /\ op.from.lock_reset_count > 0

\* ---------------------------------------------------------------- C6
\* the stream of Bag.pop: what Queue.next handed out, then what the queue holds
Stream == handed \o items

\* C6: in the sequence of kinds returned by Bag.pop, and so by Queue.next, the
\* draws 7k+1 .. 7k+7 hold each of the seven kinds exactly once.
C6_Bags ==
  \A k \in 0..(Len(Stream) \div 7) :
     7 * k + 7 <= Len(Stream) => {Stream[7 * k + j] : j \in 1..7} = Kinds

C6_Witness ==
  /\ Len(handed) >= 11
  /\ Len(Stream) >= 14
  /\ SubSeq(Stream, 1, 7) # SubSeq(Stream, 8, 14)

\* ---------------------------------------------------------------- C7
\* C7: a lock is classified as a T-spin only if the piece is a T, at least one
\* line was cleared, and the most recent successful state-changing action applied
\* to that piece since it became active (by spawn or by hold) was a rotation.
C7_OnlyAfterRotation ==
  \A i \in 1..Len(locks) :
     locks[i].tspin
        => /\ locks[i].piece.kind = "T"
           /\ locks[i].cleared >= 1
           /\ locks[i].since = "rotate"

\* ---------------------------------------------------------------- C8
Occupied(x, y) ==
  \/ x < 0 \/ x >= COLS \/ y < 0 \/ y >= ROWS
  \/ board[y + 1][x + 1] # EMPTY

\* the four diagonal cells around the centre (cx, cy), and the front pair by rotation
Diagonals(cx, cy) == {<<cx - 1, cy - 1>>, <<cx + 1, cy - 1>>, <<cx - 1, cy + 1>>, <<cx + 1, cy + 1>>}

Front(cx, cy, rot) ==
  CASE rot = 0 -> {<<cx - 1, cy - 1>>, <<cx + 1, cy - 1>>}
    [] rot = 1 -> {<<cx + 1, cy - 1>>, <<cx + 1, cy + 1>>}
    [] rot = 2 -> {<<cx - 1, cy + 1>>, <<cx + 1, cy + 1>>}
    [] rot = 3 -> {<<cx - 1, cy - 1>>, <<cx - 1, cy + 1>>}

CountOccupied(cs) == Cardinality({c \in cs : Occupied(c[1], c[2])})

\* C8: for a T piece locked with last action 'rotate' and n >= 1 cleared lines, on
\* the post-clear board: special iff at least 3 of the 4 diagonal cells around the
\* centre are out of the board or non-empty; mini iff in addition exactly one
\* front corner is occupied and n = 1; the base score is 200 for mini single,
\* 800/1200/1600 for special single/double/triple, else 100/300/500/800.
C8_Classification ==
  (/\ Len(locks) > 0
   /\ LastLock.piece.kind = "T"
   /\ LastLock.last_action = "rotate"
   /\ LastLock.cleared >= 1)
     => LET n       == LastLock.cleared
            cx      == LastLock.piece.x + 1
            cy      == LastLock.piece.y + 1
            special == CountOccupied(Diagonals(cx, cy)) >= 3
            mini    == special /\ CountOccupied(Front(cx, cy, LastLock.piece.rot)) = 1 /\ n = 1
        IN  /\ LastLock.tspin = special
            /\ LastLock.mini = mini
            /\ LastLock.table = IF mini THEN 200
                                ELSE IF special THEN <<800, 1200, 1600>>[n]
                                ELSE <<100, 300, 500, 800>>[n]

C8_Witness ==
  /\ Len(locks) > 0
  /\ LastLock.piece.kind = "T"
  /\ LastLock.last_action = "rotate"
  /\ LastLock.cleared = 1
  /\ LastLock.tspin
  /\ LastLock.mini
  /\ LastLock.table = 200

\* ---------------------------------------------------------------- C9
Eligible(r) ==
  r.line_type \in {"tetris", "tspin_mini_single", "tspin_single", "tspin_double", "tspin_triple"}

\* the line-clearing lock before lock i, 0 when there is none
PrevClear(i) ==
  LET before == {j \in 1..(i - 1) : locks[j].cleared > 0}
  IN  IF before = {} THEN 0 ELSE CHOOSE j \in before : \A k \in before : k <= j

Chained(i) == Eligible(locks[i]) /\ PrevClear(i) > 0 /\ Eligible(locks[PrevClear(i)])

\* C9: an eligible lock (tetris or T-spin) that follows an eligible line-clearing
\* lock, with only zero-line locks in between, scores its table value times 1.5,
\* truncated, before the combo bonus, and leaves the flag true; any other
\* line-clearing lock scores its table value and leaves the flag equal to its
\* eligibility.
C9_BackToBack ==
  \A i \in 1..Len(locks) :
     locks[i].cleared > 0
        => LET r == locks[i]
           IN  IF Chained(i)
               THEN r.gain = r.drop + (r.table * 3) \div 2 + 50 * r.combo /\ r.b2b
               ELSE r.gain = r.drop + r.table + 50 * r.combo /\ r.b2b = Eligible(r)

\* a tetris, a lock that clears nothing, a tetris that then scores 1200
C9_Witness ==
  /\ Len(locks) = 3
  /\ locks[1].line_type = "tetris"
  /\ locks[2].cleared = 0
  /\ locks[3].line_type = "tetris"
  /\ locks[3].gain - locks[3].drop = 1200
  /\ b2b

\* ---------------------------------------------------------------- C10
\* the number of line-clearing locks at the end of the history
RECURSIVE Run(_)
Run(n) == IF n = 0 \/ locks[n].cleared = 0 THEN 0 ELSE 1 + Run(n - 1)

\* each line-clearing lock adds 50 times the updated counter; a lock that clears
\* nothing resets the counter and keeps the back-to-back flag
C10_Bonus ==
  \A i \in 1..Len(locks) :
     LET r == locks[i]
     IN  IF r.cleared > 0
         THEN /\ r.combo = IF r.combo_before >= 0 THEN r.combo_before + 1 ELSE 0
              /\ r.gain = r.drop + r.base + 50 * r.combo
         ELSE r.combo = -1 /\ r.b2b = r.b2b_before /\ r.gain = r.drop

\* C10 as stated: the combo counter is -1 when no combo is active and otherwise
\* equals the count of consecutive line-clearing locks; each line-clearing lock
\* adds 50 times the updated counter, a zero-line lock resets it to -1 and keeps b2b.
C10_Stated == combo = (IF Run(Len(locks)) = 0 THEN -1 ELSE Run(Len(locks))) /\ C10_Bonus

\* C10 amended: the counter is the count of consecutive line-clearing locks less
\* one (-1 when the last lock cleared nothing, 0 after the first clearing lock);
\* each line-clearing lock adds 50 times the updated counter, a zero-line lock
\* resets it to -1 and keeps b2b.
C10_Combo == combo = Run(Len(locks)) - 1 /\ C10_Bonus

C10_Witness ==
  /\ Len(locks) = 2
  /\ locks[1].cleared > 0
  /\ locks[2].cleared > 0
  /\ combo = 1
  /\ locks[2].gain = locks[2].drop + locks[2].base + 50

\* ---------------------------------------------------------------- C11
\* the points a lock gave for its lines
LinePoints(l) == IF l.line_type # "" THEN l.base + 50 * l.combo ELSE 0

\* the call that has just returned ran lock_piece
JustLocked ==
  /\ pc = "returned"
  /\ \/ op.name = "hard_drop"
     \/ op.name = "update" /\ op.locked

\* C11: at each lock the score goes up, beside the points for lines, by 1 per row
\* gone down by accepted soft drops and 2 per row gone down by the hard drop since
\* the lock before, and both drop_distance counters are 0 after the lock
C11_DropCredit ==
  /\ \A i \in 1..Len(locks) :
        locks[i].gain = locks[i].soft + 2 * locks[i].fell + LinePoints(locks[i])
  /\ JustLocked => drop_distance_soft = 0 /\ drop_distance_hard = 0

C11_Witness ==
  /\ JustLocked
  /\ LastLock.soft > 0
  /\ LastLock.fell > 0
  /\ LastLock.cleared > 0

\* ---------------------------------------------------------------- C12
C12_Turned ==
  (pc = "idle" /\ op'.name = "rotate" /\ cur.kind = "O")
     => /\ op'.ok
        /\ cells(cur') = cells(cur)

\* C12: a rotation of the active O piece, by +1, -1 or 2, reports success and
\* leaves the cells the piece occupies as they were
C12_RotateO == [][C12_Turned]_vars

\* the O piece after a half turn, resting on the stack
C12_Witness ==
  /\ pc = "returned"
  /\ op.name = "rotate"
  /\ op.ok
  /\ cur.kind = "O"
  /\ cur.rot = 2
  /\ on_ground(G)

\* ---------------------------------------------------------------- C13
\* the call that returns in this step ran lock_piece
Locking ==
  \/ op'.name = "hard_drop"
  \/ op'.name = "update" /\ op'.locked

C13_Held ==
  /\ (pc = "idle" /\ op'.name = "hold" /\ hold_used) => UNCHANGED gameVars
  /\ (pc = "idle" /\ op'.name = "hold" /\ ~hold_used) => hold_used'
  /\ (hold_used /\ ~hold_used') => Locking

\* C13: a hold intent while hold was used since the last spawn changes no field
\* of the game; a hold that takes effect marks hold as used, and only the spawn
\* after a lock clears the mark, so hold takes effect at most once per piece
C13_HoldOnce == [][C13_Held]_vars

\* a second hold intent, after the first one swapped the O piece for the T piece
\* and the T piece was turned
C13_Witness ==
  /\ pc = "returned"
  /\ op.name = "hold"
  /\ ~op.ok
  /\ locks = <<>>
  /\ hold = "O"
  /\ cur.kind = "T"
  /\ cur.rot # 0

\* ---------------------------------------------------------------- C14
C14_Swapped ==
  (pc = "idle" /\ op'.name = "hold" /\ ~hold_used)
     => /\ hold' = cur.kind
        /\ IF hold = "none"
           THEN /\ cur'.kind = Head(items)
                /\ Len(items') = Len(items)
                /\ \A i \in 1..(Len(items) - 1) : items'[i] = items[i + 1]
           ELSE /\ cur'.kind = hold
                /\ items' = items
                /\ pool' = pool
        /\ cur'.rot = 0
        /\ cur'.x = 3
        /\ cur'.y = (IF cur'.kind = "O" THEN -2 ELSE -1)
        /\ lock_timer' = NONE
        /\ lock_reset_count' = 0

\* C14: a hold that takes effect with an empty slot stores the active kind and
\* makes the head of the queue the active piece; with a filled slot it exchanges
\* the active kind and the held kind and leaves the queue alone. Either way the
\* new active piece has rotation 0 and anchor (3,-1), (3,-2) for O, the lock timer
\* is cleared and the reset counter is 0.
C14_Hold == [][C14_Swapped]_vars

\* a hold into the empty slot, of a turned piece whose lock timer was running
C14_Witness ==
  /\ pc = "returned"
  /\ op.name = "hold"
  /\ op.ok
  /\ op.from.hold = "none"
  /\ op.from.rot # 0
  /\ op.from.lock_timer # NONE
  /\ hold = "T"
  /\ cur.kind = "S"

\* a hold with the slot filled, of a turned piece whose lock timer was running
C14_WitnessSwap ==
  /\ pc = "returned"
  /\ op.name = "hold"
  /\ op.ok
  /\ op.from.hold = "T"
  /\ op.from.rot # 0
  /\ op.from.lock_timer # NONE
  /\ hold = "O"
  /\ cur.kind = "T"

\* ---------------------------------------------------------------- C15
\* the call that returns in this step placed a piece: by the spawn that ends
\* lock_piece, or by a hold that took effect
Placing ==
  /\ pc = "idle"
  /\ \/ Locking
     \/ op'.name = "hold" /\ ~hold_used

C15_Flag ==
  /\ (~game_over /\ game_over') => Placing /\ collide(board', cur')
  /\ (~game_over /\ Placing /\ collide(board', cur')) => game_over'
  /\ (game_over /\ ~game_over') => op'.name = "restart"

\* C15: game_over becomes true exactly in a step that places a piece, by spawn or
\* by hold, where the piece collides with the board at its anchor; once true it
\* stays true until a new Game is constructed
C15_GameOver == [][C15_Flag]_vars

\* the T piece came back by hold onto the stack: game over without a lock
C15_Witness ==
  /\ pc = "returned"
  /\ op.name = "hold"
  /\ op.ok
  /\ game_over
  /\ locks = <<>>
  /\ collide(board, cur)

\* the piece spawned after a lock came onto the stack
C15_WitnessSpawn ==
  /\ JustLocked
  /\ game_over
  /\ Len(locks) = 1
  /\ ~paused
  /\ collide(board, cur)
  /\ hold = "T"

\* a new session
C15_WitnessRestart ==
  /\ pc = "returned"
  /\ op.name = "restart"
  /\ ~game_over
  /\ board = EmptyGrid

\* ---------------------------------------------------------------- C16
C16_Still ==
  (pc = "idle" /\ op'.name = "update" /\ (paused \/ game_over)) => UNCHANGED gameVars

\* C16: an update while the session is paused or over changes no field of the
\* game, whatever dt is
C16_Frozen == [][C16_Still]_vars

\* an update while paused, a gravity step due and the lock timer running
C16_Witness ==
  /\ pc = "returned"
  /\ op.name = "update"
  /\ paused
  /\ ~game_over
  /\ lock_timer # NONE
  /\ gravity_timer > 0

\* an update after game over
C16_WitnessOver ==
  /\ pc = "returned"
  /\ op.name = "update"
  /\ game_over
  /\ ~paused

\* ---------------------------------------------------------------- C17
C17_Kept ==
  IF op'.name = "restart"
  THEN lines' = 0 /\ level' = 1
  ELSE lines' >= lines /\ level' >= level

\* C17: level = 1 + lines div 10 in every state; lines and level never go down
\* within a session, and a new session starts at level 1
C17_Level == [](level = 1 + lines \div 10) /\ [][C17_Kept]_vars

\* the tenth line of the session was cleared
C17_Witness ==
  /\ JustLocked
  /\ LastLock.cleared > 0
  /\ lines >= 10
  /\ level = 2

\* ---------------------------------------------------------------- C18
\* C18: constructing a Queue with a preview that is out of range, a negative one
\* for example, fails with an error
C18_Rejected ==
  (op.name = "Queue" /\ op.preview < 0) => ~op.ok

\* ---------------------------------------------------------------- C19
\* a call of game.update has just returned
C19_Updated == pc = "returned" /\ op.name = "update"

\* C19: when updates keep occurring, whatever moves and rotations come between
\* them, the active piece is locked in the end, or the game is over
C19_NoStall == []<>C19_Updated => <>(left = 0 \/ game_over)

\* ---------------------------------------------------------------- C20
C20_Terminal ==
  (game_over /\ op'.name # "restart") => UNCHANGED <<board, score, lines, level, cur, items>>

\* C20: once the game is over no intent and no update changes the board, the
\* score, the lines, the level, the active piece or the queue, until a new
\* session is constructed
C20_Over == [][C20_Terminal]_vars

\* ---------------------------------------------------------------- C21
\* C21: while the game is not over every cell of the active piece, the cells
\* above the grid too, lies between the side walls
C21_InWalls ==
  ~game_over => \A c \in cells(cur) : 0 <= c[1] /\ c[1] < COLS

\* ---------------------------------------------------------------- C22
\* a successful horizontal move, down move or rotation made while the lock
\* timer of the piece runs and fewer than LOCK_RESETS_MAX resets are counted
\* zeroes the timer and counts one more reset
C22_Reset ==
  (/\ pc = "idle"
   /\ op'.name \in {"move", "soft_drop", "rotate"}
   /\ op'.ok
   /\ lock_timer # NONE
   /\ lock_reset_count < LOCK_RESETS_MAX)
     => (lock_timer' = 0 /\ lock_reset_count' = lock_reset_count + 1)

C23_After(m) ==
  /\ (on_ground(m) /\ m.lock_timer # NONE)
       => /\ op'.locked <=> (m.lock_timer + DT_FINE >= LOCK_DELAY)
          /\ op'.locked => locks'[Len(locks')].piece = m.cur
          /\ ~op'.locked => (lock_timer' = m.lock_timer + DT_FINE /\ cur' = m.cur)
  /\ (on_ground(m) /\ m.lock_timer = NONE)
       => (~op'.locked /\ lock_timer' = 0 /\ cur' = m.cur)
  /\ ~on_ground(m)
       => (~op'.locked /\ lock_timer' = NONE /\ cur' = m.cur)
  /\ op'.locked
       => collide(board, [locks'[Len(locks')].piece EXCEPT !.y = @ + 1])

C23_Delay ==
  (pc = "idle" /\ op'.name = "update" /\ ~paused /\ ~game_over)
     => C23_After(gravity_step(G, DT_FINE).g)

\* C23: in an update of the running game, after the gravity step, a piece on
\* the ground with a running lock timer gets dt added and is locked in that
\* update exactly when the timer has then reached LOCK_DELAY; a piece on the
\* ground without a timer gets the timer zero and is not locked; a piece off
\* the ground loses its timer; so no piece that can go down is locked
C23_LockDelay == [][C23_Delay]_vars

\* an update locks a piece that a rotation had lifted and gravity put down again
C23_Witness ==
  /\ pc = "returned"
  /\ op.name = "update"
  /\ op.locked
  /\ LastLock.by = "update"
  /\ LastLock.since = "move"
  /\ LastLock.piece.rot # 0

\* ---------------------------------------------------------------- C24
\* the offsets a half turn tries, in their order
C24_HalfTurn == << <<0, 0>>, <<1, 0>>, <<-1, 0>>, <<0, 1>>, <<0, -1>>, <<2, 0>>, <<-2, 0>> >>

\* the offsets listed for a turn of piece p by dir
C24_Listed(p, dir) ==
  IF dir = 2 THEN C24_HalfTurn
  ELSE (IF p.kind = "I" THEN I_KICKS ELSE JLSTZ_KICKS)[<<p.rot, (p.rot + dir) % 4>>]

\* piece p turned by dir and put at its anchor plus the offset o
C24_Placed(p, dir, o) ==
  [p EXCEPT !.rot = (p.rot + dir) % 4, !.x = @ + o[1], !.y = @ + o[2]]

\* the indices of the listed offsets whose placement does not collide
C24_Fits(p, dir) ==
  {i \in 1..Len(C24_Listed(p, dir)) :
     ~collide(board, C24_Placed(p, dir, C24_Listed(p, dir)[i]))}

\* C24: a turn by +1 or -1 of a piece other than O tries the five offsets
\* listed for its (from, to) pair in the I table or the JLSTZ table, a half
\* turn tries its seven offsets, each in the listed order; the piece ends at
\* the old anchor plus the first offset that does not collide, tagged
\* "rotate", and the turn fails only when every listed offset collides
C24_Kicks ==
  (/\ pc = "returned"
   /\ op.name = "rotate_with_kick"
   /\ ~(op.from.kind = "O" /\ op.dir \in {1, -1}))
     => /\ Len(C24_Listed(op.from, op.dir)) = IF op.dir = 2 THEN 7 ELSE 5
        /\ op.ok <=> (C24_Fits(op.from, op.dir) # {})
        /\ op.ok
             => \E i \in C24_Fits(op.from, op.dir) :
                  /\ \A j \in C24_Fits(op.from, op.dir) : i <= j
                  /\ cur = [C24_Placed(op.from, op.dir, C24_Listed(op.from, op.dir)[i])
                              EXCEPT !.last_action = "rotate"]

\* an I piece turned by +1 ends at the fourth offset of its list
C24_Witness ==
  /\ pc = "returned"
  /\ op.name = "rotate_with_kick"
  /\ op.ok
  /\ op.dir = 1
  /\ op.from.kind = "I"
  /\ op.from.rot = 0
  /\ cur.x = op.from.x - 2
  /\ cur.y = op.from.y - 1

\* ---------------------------------------------------------------- C25
\* a move, a soft drop, a rotation, a hold or an update that does not run the
\* lock sequence leaves the board as it is
C25_Kept ==
  (/\ pc = "idle"
   /\ \/ op'.name \in {"move", "soft_drop", "rotate", "hold"}
      \/ op'.name = "update" /\ ~op'.locked)
     => board' = board

\* C25: only the lock sequence changes the board: every move, soft drop,
\* rotation and hold, accepted or rejected, and every update that does not lock
\* leaves every cell of the board as it is
C25_BoardFrame == [][C25_Kept]_vars

\* a soft drop is rejected for a piece on the ground whose lock timer has run
\* since its last reset
C25_Witness ==
  /\ pc = "returned"
  /\ op.name = "soft_drop"
  /\ ~op.ok
  /\ lock_timer > 0
  /\ resets > 0

\* ---------------------------------------------------------------- C26
\* the lowest anchor row piece p reaches from its row by going down one row at
\* a time without colliding
C26_Lowest(grid, p) ==
  CHOOSE y \in p.y..ROWS :
     /\ \A k \in (p.y + 1)..y : ~collide(grid, [p EXCEPT !.y = k])
     /\ collide(grid, [p EXCEPT !.y = y + 1])

C26_Recomputed ==
  (/\ pc = "idle"
   /\ \/ op'.name = "update" /\ ~paused /\ ~game_over
      \/ op'.name = "rotate" /\ op'.ok
      \/ op'.name = "hold" /\ ~hold_used
      \/ Locking)
     => (ghost_y' = C26_Lowest(board', cur') /\ ghost_y' >= cur'.y)

\* C26: after every update of the running game, every accepted rotation, every
\* hold that takes effect and every spawn, the ghost row is the lowest anchor
\* row the active piece reaches from its position by going down one row at a
\* time without colliding, and it is not above the row of the piece
C26_GhostRow == [][C26_Recomputed]_vars

\* the piece that a hold made active is turned, a kick lifts it, and the ghost
\* row lies under it
C26_Witness ==
  /\ pc = "returned"
  /\ op.name = "rotate"
  /\ op.ok
  /\ hold_used
  /\ ~game_over
  /\ cur.kind # "O"
  /\ ghost_y > cur.y

\* ---------------------------------------------------------------- C27
\* a cell of piece p at a row of the grid or under it lies on a locked cell or
\* under the floor
C27_Overlaps(grid, p) ==
  \E c \in cells(p) :
     /\ c[2] >= 0
     /\ \/ c[2] >= ROWS
        \/ 0 <= c[1] /\ c[1] < COLS /\ at(grid, c[1], c[2]) # EMPTY

\* a lock of the running game writes the piece into empty cells only
C27_Written ==
  (pc = "idle" /\ Locking /\ ~game_over /\ ~paused)
     => \A c \in cells(locks'[Len(locks')].piece) :
          (0 <= c[1] /\ c[1] < COLS /\ 0 <= c[2] /\ c[2] < ROWS)
             => at(board, c[1], c[2]) = EMPTY

\* C27: while the game is not over the active piece does not collide: none of
\* its cells with y >= 0 lies on a locked cell or at a row >= ROWS, whatever
\* moves, rotations, holds, drops and updates were made; so a lock of the
\* running game never writes over a locked cell
C27_NoOverlap == [](~game_over => ~C27_Overlaps(board, cur)) /\ [][C27_Written]_vars

\* a turned piece is dropped and locked inside the grid, and the game goes on
C27_Witness ==
  /\ pc = "returned"
  /\ op.name = "hard_drop"
  /\ ~game_over
  /\ LastLock.by = "hard_drop"
  /\ LastLock.piece.rot # 0
  /\ LastLock.piece.y >= 0
  /\ LastLock.fell > 0

====
